---- MODULE Spec2Model ----
(***************************************************************************)
(* Model of InventoryAllocationSystem (src/app/utils/allocation_4.py):     *)
(* run_analysis (demand / supply analysis per product, branch, channel)    *)
(* and run_allocation (prioritised FEFO allocation of central-warehouse    *)
(* batches with channel-specific expiry rules).                            *)
(*                                                                         *)
(* A DataFrame is a sequence of rows (records).  The pandas index label of *)
(* a stock row is its position in stock_df; rows that are filtered or      *)
(* sorted carry that label in the field idx, as DataFrame.copy() and       *)
(* sort_values keep the index.  Instants (expiry_date, datetime.now()) are *)
(* integers counted in days; timedelta(days=d) is d.                       *)
(***************************************************************************)
EXTENDS Integers, Sequences, FiniteSets, TLC

(***************************************************************************)
(* Bounds of the model.                                                    *)
(***************************************************************************)
MaxQty == 2          \* largest forecast_quantity of one forecast record
MaxStock == 2        \* largest stock_available of one stock batch

ForecastSizes == 0..2             \* numbers of records of a forecast table
StockSizes == 0..2                \* numbers of records of a stock table
CwBranchIds == {3}                \* the central warehouse
\* (product_id, branch_id, channel_id) of forecast records: two channels at
\* a branch, a second branch, a second product, a forecast at the warehouse
ForecastKeys == {<<1, 1, 1>>, <<1, 1, 2>>, <<1, 2, 1>>, <<2, 1, 1>>, <<1, 3, 1>>}
\* (product_id, branch_id) of stock batches: warehouse batches of two
\* products and stock held by a destination branch
StockKeys == {<<1, 3>>, <<2, 3>>, <<1, 1>>}
Channels == {1, 2}
ExpiryDates == {0, 1}             \* expiry_date of a batch
Nows == {0}                       \* values of datetime.now() at a run
RuleChannels == {1}               \* channels with an expiry rule
RuleDays == {1}                   \* minimum shelf-life days of a rule

(***************************************************************************)
(* Generic helpers: sums, lexicographic order, stable sort.                *)
(***************************************************************************)
RECURSIVE SumSeq(_)
SumSeq(s) == IF s = << >> THEN 0 ELSE Head(s) + SumSeq(Tail(s))

Min(a, b) == IF a <= b THEN a ELSE b

\* a < b for two tuples of integers of the same length
LexLess(a, b) ==
    \E k \in 1..Len(a) : a[k] < b[k] /\ \A j \in 1..(k - 1) : a[j] = b[j]

\* The indices of S ordered by keys[i], equal keys in index order (a stable
\* sort, which is what pandas uses for a sort on several columns).
RECURSIVE SortIdx(_, _)
SortIdx(keys, S) ==
    IF S = {} THEN << >>
    ELSE LET m == CHOOSE i \in S : \A j \in S \ {i} :
                      LexLess(keys[i], keys[j]) \/ (keys[i] = keys[j] /\ i < j)
         IN  <<m>> \o SortIdx(keys, S \ {m})

\* A set of tuples as a sequence in ascending lexicographic order
\* (groupby(...) with its default sort=True).
RECURSIVE SortKeys(_)
SortKeys(S) ==
    IF S = {} THEN << >>
    ELSE LET m == CHOOSE a \in S : \A b \in S \ {a} : LexLess(a, b)
         IN  <<m>> \o SortKeys(S \ {m})

Range(s) == {s[i] : i \in DOMAIN s}

(***************************************************************************)
(* Inputs: the cleaned forecast and stock tables of load_and_clean_data.   *)
(***************************************************************************)
ForecastRowSet ==
    {[product_id |-> k[1], branch_id |-> k[2], channel_id |-> k[3],
      forecast_quantity |-> q] : k \in ForecastKeys, q \in 0..MaxQty}

\* The expiry_date of a batch held by a destination branch is never read
\* (run_analysis sums its stock_available only), so it does not vary.
StockRowSet ==
    {r \in {[product_id |-> k[1], branch_id |-> k[2], stock_available |-> q,
             expiry_date |-> e] :
                k \in StockKeys, q \in 1..MaxStock, e \in ExpiryDates} :
        r.branch_id \in CwBranchIds \/ r.expiry_date = 0}

ForecastTables == UNION {[1..n -> ForecastRowSet] : n \in ForecastSizes}
StockTables == UNION {[1..n -> StockRowSet] : n \in StockSizes}

VARIABLES
    cw_branch_id,            \* self.cw_branch_id
    forecast_df,             \* self.forecast_df
    stock_df,                \* self.stock_df
    analysis_df,             \* self.analysis_df
    allocation_plan_df,      \* self.allocation_plan_df
    unfulfilled_demands_df,  \* self.unfulfilled_demands_df
    remaining_cw_stock_df,   \* self.remaining_cw_stock_df
    pc,                      \* position of the session in the program
    \* arguments and locals of the run_allocation call in progress
    priority_channels, priority_branches, expiry_rules, today,
    prioritized_demand_df, cw_stock_sorted, branch_need_tracker,
    allocation_plan,
    line,                    \* position of the outer loop in prioritized_demand_df
    qty_to_fulfill_for_channel, fulfilled_for_channel,
    available_batches,
    batch,                   \* position of the inner loop in available_batches
    \* history: the index label of the batch each record of the plan was
    \* drawn from (the plan itself only keeps the batch's expiry_date)
    drawn_from,
    \* history: the three outputs as they stood when the call was made
    previous_outputs,
    \* history: the demand lines the call left at lines 146-147, each with
    \* its branch's remaining need and the length of the plan at that moment
    skipped

session == <<cw_branch_id, forecast_df, stock_df, analysis_df>>
outputs == <<allocation_plan_df, unfulfilled_demands_df, remaining_cw_stock_df>>
arguments == <<priority_channels, priority_branches, expiry_rules, today>>
tables == <<prioritized_demand_df, cw_stock_sorted, branch_need_tracker>>
inner == <<qty_to_fulfill_for_channel, fulfilled_for_channel,
           available_batches, batch>>

vars == <<session, outputs, pc, arguments, tables, allocation_plan, line,
          inner, drawn_from, previous_outputs, skipped>>

(***************************************************************************)
(* run_analysis                                                            *)
(***************************************************************************)
\* all the stock, the central warehouse's included
DestinationStockAll(stock, cw) == stock

\* stock_df[stock_df['branch_id'] != cw_branch_id]
DestinationStock(stock, cw) == SelectSeq(stock, LAMBDA r : r.branch_id # cw)

\* destination_stock.groupby(['product_id','branch_id'])['stock_available'].sum()
AggBranchStock(stock, cw) ==
    LET dest == DestinationStock(stock, cw)
        keys == SortKeys({<<r.product_id, r.branch_id>> : r \in Range(dest)})
    IN  [i \in 1..Len(keys) |->
            [product_id |-> keys[i][1], branch_id |-> keys[i][2],
             total_stock_available |->
                 SumSeq([j \in 1..Len(dest) |->
                     IF <<dest[j].product_id, dest[j].branch_id>> = keys[i]
                     THEN dest[j].stock_available ELSE 0])]]

\* forecast_df.groupby(['product_id','branch_id','channel_id'])['forecast_quantity'].sum()
AggForecast(forecast) ==
    LET keys == SortKeys({<<r.product_id, r.branch_id, r.channel_id>> :
                              r \in Range(forecast)})
    IN  [i \in 1..Len(keys) |->
            [product_id |-> keys[i][1], branch_id |-> keys[i][2],
             channel_id |-> keys[i][3],
             forecast_quantity |->
                 SumSeq([j \in 1..Len(forecast) |->
                     IF <<forecast[j].product_id, forecast[j].branch_id,
                          forecast[j].channel_id>> = keys[i]
                     THEN forecast[j].forecast_quantity ELSE 0])]]

\* pd.merge(agg_forecast, agg_branch_stock, how='left') and fillna(0)
MergedStock(agg_stock, p, b) ==
    LET hit == {i \in 1..Len(agg_stock) :
                   agg_stock[i].product_id = p /\ agg_stock[i].branch_id = b}
    IN  IF hit = {} THEN 0
        ELSE agg_stock[CHOOSE i \in hit : TRUE].total_stock_available

\* analysis_df.groupby(['product_id','branch_id'])['forecast_quantity'].sum()
BranchTotalForecast(agg_forecast, p, b) ==
    SumSeq([j \in 1..Len(agg_forecast) |->
        IF agg_forecast[j].product_id = p /\ agg_forecast[j].branch_id = b
        THEN agg_forecast[j].forecast_quantity ELSE 0])

\* a net need of 0 classified as Allocation Needed
AllocationStatusFromZero(x) ==
    IF x >= 0 THEN "Allocation Needed"
    ELSE IF x = 0 THEN "No Allocation Needed" ELSE "Overstock"

\* the lambda of analysis_df['branch_net_need'].apply
AllocationStatus(x) ==
    IF x > 0 THEN "Allocation Needed"
    ELSE IF x = 0 THEN "No Allocation Needed" ELSE "Overstock"

Analysis(forecast, stock, cw) ==
    LET agg_forecast == AggForecast(forecast)
        agg_stock == AggBranchStock(stock, cw)
    IN  [i \in 1..Len(agg_forecast) |->
            LET r == agg_forecast[i]
                tsa == MergedStock(agg_stock, r.product_id, r.branch_id)
                tfb == BranchTotalForecast(agg_forecast, r.product_id, r.branch_id)
            IN  [product_id |-> r.product_id, branch_id |-> r.branch_id,
                 channel_id |-> r.channel_id,
                 forecast_quantity |-> r.forecast_quantity,
                 total_stock_available |-> tsa,
                 total_forecast_at_branch |-> tfb,
                 branch_net_need |-> tfb - tsa,
                 allocation_status |-> AllocationStatus(tfb - tsa)]]

(***************************************************************************)
(* run_allocation: the tables built before the loop                        *)
(***************************************************************************)
\* analysis_df[allocation_status == 'Allocation Needed'].copy() with the two
\* priority_rank columns
DemandDf(analysis, pchannels, pbranches) ==
    LET needed == SelectSeq(analysis,
                      LAMBDA r : r.allocation_status = "Allocation Needed")
    IN  [i \in 1..Len(needed) |->
            [product_id |-> needed[i].product_id,
             branch_id |-> needed[i].branch_id,
             channel_id |-> needed[i].channel_id,
             forecast_quantity |-> needed[i].forecast_quantity,
             branch_net_need |-> needed[i].branch_net_need,
             priority_rank_channel |->
                 IF needed[i].channel_id \in pchannels THEN 1 ELSE 2,
             priority_rank_branch |->
                 IF needed[i].branch_id \in pbranches THEN 1 ELSE 2]]

\* the sort key of demand_df.sort_values(by=[rank_channel, rank_branch,
\* forecast_quantity], ascending=[True, True, False])
DemandSortKey(r) ==
    <<r.priority_rank_channel, r.priority_rank_branch, 0 - r.forecast_quantity>>

\* the demand lines in the order of the analysis table
PrioritizedDemandUnsorted(demand) == demand

PrioritizedDemand(demand) ==
    LET order == SortIdx([i \in 1..Len(demand) |-> DemandSortKey(demand[i])],
                         1..Len(demand))
    IN  [k \in 1..Len(demand) |-> demand[order[k]]]

\* the warehouse batches sorted by product_id only
CwStockSortedByProduct(stock, cw) ==
    LET labels == {i \in 1..Len(stock) : stock[i].branch_id = cw}
        order == SortIdx([i \in 1..Len(stock) |-> <<stock[i].product_id>>],
                         labels)
    IN  [k \in 1..Len(order) |->
            [idx |-> order[k],
             product_id |-> stock[order[k]].product_id,
             branch_id |-> stock[order[k]].branch_id,
             stock_available |-> stock[order[k]].stock_available,
             expiry_date |-> stock[order[k]].expiry_date]]

\* stock_df[branch_id == cw_branch_id].copy().sort_values(by=[product_id,
\* expiry_date]); every row keeps its index label
CwStockSorted(stock, cw) ==
    LET labels == {i \in 1..Len(stock) : stock[i].branch_id = cw}
        order == SortIdx([i \in 1..Len(stock) |->
                             <<stock[i].product_id, stock[i].expiry_date>>],
                         labels)
    IN  [k \in 1..Len(order) |->
            [idx |-> order[k],
             product_id |-> stock[order[k]].product_id,
             branch_id |-> stock[order[k]].branch_id,
             stock_available |-> stock[order[k]].stock_available,
             expiry_date |-> stock[order[k]].expiry_date]]

\* demand_df.groupby(['product_id','branch_id'])['branch_net_need'].first().to_dict()
BranchNeedTracker(demand) ==
    [key \in {<<r.product_id, r.branch_id>> : r \in Range(demand)} |->
        LET first == CHOOSE i \in 1..Len(demand) :
                /\ <<demand[i].product_id, demand[i].branch_id>> = key
                /\ \A j \in 1..(i - 1) :
                       <<demand[j].product_id, demand[j].branch_id>> # key
        IN  demand[first].branch_net_need]

(***************************************************************************)
(* run_allocation: one demand line                                         *)
(***************************************************************************)
\* expiry_rules.get(channel_id, 0)
MinDaysExpiry(rules, channel) ==
    IF channel \in DOMAIN rules THEN rules[channel] ELSE 0

\* today + timedelta(days=min_days_expiry)
RequiredExpiryDate(rules, channel, now) == now + MinDaysExpiry(rules, channel)

\* the batches of the product, whatever their expiry_date
AvailableBatchesAnyExpiry(cw_sorted, prod_id, required_expiry_date) ==
    SelectSeq(cw_sorted, LAMBDA b : b.product_id = prod_id)

\* the eligible batches of the product or, when there is none, all of its
\* batches
AvailableBatchesOrAny(cw_sorted, prod_id, required_expiry_date) ==
    LET eligible == SelectSeq(cw_sorted,
                        LAMBDA b : /\ b.product_id = prod_id
                                   /\ b.expiry_date >= required_expiry_date)
    IN  IF eligible # << >> THEN eligible
        ELSE SelectSeq(cw_sorted, LAMBDA b : b.product_id = prod_id)

\* cw_stock_sorted[(product_id == prod_id) & (expiry_date >= required)]
AvailableBatches(cw_sorted, prod_id, required_expiry_date) ==
    SelectSeq(cw_sorted, LAMBDA b : /\ b.product_id = prod_id
                                    /\ b.expiry_date >= required_expiry_date)

\* branch_need_tracker.get(branch_key, 0)
RemainingBranchNeed(tracker, key) ==
    IF key \in DOMAIN tracker THEN tracker[key] ELSE 0

\* the line's own forecast, whatever its branch still needs
QtyToFulfillOfForecast(forecast_qty, remaining_branch_need) == forecast_qty

\* min(forecast_qty, remaining_branch_need)
QtyToFulfill(forecast_qty, remaining_branch_need) ==
    Min(forecast_qty, remaining_branch_need)

\* the line's outstanding target, whatever the batch holds
TakeIgnoringStock(qty_to_fulfill, fulfilled, stock_available) ==
    qty_to_fulfill - fulfilled

\* min(qty_to_fulfill_for_channel - fulfilled_for_channel, stock_available)
Take(qty_to_fulfill, fulfilled, stock_available) ==
    Min(qty_to_fulfill - fulfilled, stock_available)

\* the dict appended to allocation_plan at lines 154-157
AllocationRecord(row, cw, take, batch_expiry) ==
    [product_id |-> row.product_id, from_branch |-> cw,
     to_branch |-> row.branch_id, channel_id |-> row.channel_id,
     quantity_allocated |-> take, expiry_date |-> batch_expiry]

\* cw_stock_sorted.loc[batch_idx, 'stock_available'] -= take
Decrement(cw_sorted, batch_idx, take) ==
    [k \in 1..Len(cw_sorted) |->
        IF cw_sorted[k].idx = batch_idx
        THEN [cw_sorted[k] EXCEPT !.stock_available = @ - take]
        ELSE cw_sorted[k]]

(***************************************************************************)
(* run_allocation: the tables built after the loop                         *)
(***************************************************************************)
\* the branch's total forecast read as its need
TotalForecastAsNeed(analysis, key) ==
    LET first == CHOOSE i \in 1..Len(analysis) :
            <<analysis[i].product_id, analysis[i].branch_id>> = key
    IN  analysis[first].total_forecast_at_branch

\* analysis_df[(product_id == p) & (branch_id == b)]['branch_net_need'].iloc[0]
TotalInitialNeed(analysis, key) ==
    LET first == CHOOSE i \in 1..Len(analysis) :
            /\ <<analysis[i].product_id, analysis[i].branch_id>> = key
            /\ \A j \in 1..(i - 1) :
                   <<analysis[j].product_id, analysis[j].branch_id>> # key
    IN  analysis[first].branch_net_need

\* a row for every tracked branch, met or not
UnfulfilledDemandsOfAll(tracker, analysis) ==
    LET keys == SortKeys(DOMAIN tracker)
    IN  [i \in 1..Len(keys) |->
            [product_id |-> keys[i][1], branch_id |-> keys[i][2],
             needed |-> TotalInitialNeed(analysis, keys[i]),
             fulfilled |-> TotalInitialNeed(analysis, keys[i]) - tracker[keys[i]],
             unfulfilled |-> tracker[keys[i]]]]

\* lines 166-173: a row for every tracked branch with remaining need > 0
UnfulfilledDemands(tracker, analysis) ==
    LET keys == SortKeys(DOMAIN tracker)
        open == SelectSeq(keys, LAMBDA key : tracker[key] > 0)
    IN  [i \in 1..Len(open) |->
            [product_id |-> open[i][1], branch_id |-> open[i][2],
             needed |-> TotalInitialNeed(analysis, open[i]),
             fulfilled |-> TotalInitialNeed(analysis, open[i]) - tracker[open[i]],
             unfulfilled |-> tracker[open[i]]]]

\* cw_stock_sorted[cw_stock_sorted['stock_available'] > 0]
RemainingCwStock(cw_sorted) ==
    SelectSeq(cw_sorted, LAMBDA b : b.stock_available > 0)

\* the new table added to what the attribute held
OutputMerged(held, produced) == held \o produced

\* self.<output> = <the table this run produced> (lines 175-177)
OutputSet(held, produced) == produced

(***************************************************************************)
(* Arguments of a run_allocation call                                      *)
(***************************************************************************)
PriorityChannelChoices == {{}, {2}}
PriorityBranchChoices == {{}, {2}}
\* main_4.py passes one predefined dict: some channels have a rule, the
\* others fall back on 0 days
ExpiryRuleChoices == [RuleChannels -> RuleDays]

NoFunction == [x \in {} |-> 0]

Init ==
    /\ cw_branch_id \in CwBranchIds
    /\ forecast_df \in ForecastTables
    /\ stock_df \in StockTables
    /\ analysis_df = << >>
    /\ allocation_plan_df = << >>
    /\ unfulfilled_demands_df = << >>
    /\ remaining_cw_stock_df = << >>
    /\ pc = "loaded"
    /\ priority_channels = {} /\ priority_branches = {}
    /\ expiry_rules = NoFunction /\ today = 0
    /\ prioritized_demand_df = << >> /\ cw_stock_sorted = << >>
    /\ branch_need_tracker = NoFunction
    /\ allocation_plan = << >> /\ line = 0
    /\ qty_to_fulfill_for_channel = 0 /\ fulfilled_for_channel = 0
    /\ available_batches = << >> /\ batch = 0
    /\ drawn_from = << >>
    /\ previous_outputs = <<<< >>, << >>, << >>>>
    /\ skipped = << >>

run_analysis ==
    /\ pc = "loaded"
    /\ analysis_df' = Analysis(forecast_df, stock_df, cw_branch_id)
    /\ pc' = "ready"
    /\ UNCHANGED <<cw_branch_id, forecast_df, stock_df, outputs, arguments,
                   tables, allocation_plan, line, inner, drawn_from, previous_outputs, skipped>>

\* Lines 107-120: the call and everything before the loop.
BeginAllocation(pchannels, pbranches, rules, now) ==
    /\ priority_channels' = pchannels
    /\ priority_branches' = pbranches
    /\ expiry_rules' = rules
    /\ today' = now
    /\ LET demand_df == DemandDf(analysis_df, pchannels, pbranches)
       IN  /\ prioritized_demand_df' = PrioritizedDemand(demand_df)
           /\ branch_need_tracker' = BranchNeedTracker(demand_df)
    /\ cw_stock_sorted' = CwStockSorted(stock_df, cw_branch_id)
    /\ allocation_plan' = << >>
    /\ drawn_from' = << >>
    /\ line' = 1
    /\ pc' = "line"
    /\ previous_outputs' = outputs
    /\ skipped' = << >>
    /\ UNCHANGED <<session, outputs, inner>>

run_allocation ==
    /\ pc = "ready"
    /\ \E pchannels \in PriorityChannelChoices,
          pbranches \in PriorityBranchChoices,
          rules \in ExpiryRuleChoices, now \in Nows :
           BeginAllocation(pchannels, pbranches, rules, now)

\* The demand line the outer loop is at, and what lines 124-144 compute.
demand_row == prioritized_demand_df[line]
branch_key == <<demand_row.product_id, demand_row.branch_id>>
remaining_branch_need == RemainingBranchNeed(branch_need_tracker, branch_key)
candidate_batches ==
    AvailableBatches(cw_stock_sorted, demand_row.product_id,
        RequiredExpiryDate(expiry_rules, demand_row.channel_id, today))

AtLine == pc = "line" /\ line <= Len(prioritized_demand_df)

\* Lines 131-132: the branch's need is already met.
SkipSatisfiedLine ==
    /\ AtLine
    /\ remaining_branch_need <= 0
    /\ line' = line + 1
    /\ UNCHANGED <<session, outputs, pc, arguments, tables, allocation_plan,
                   inner, drawn_from, previous_outputs, skipped>>

\* Lines 146-147: no batch of the product meets the channel's expiry rule.
SkipLineWithoutBatches ==
    /\ AtLine
    /\ remaining_branch_need > 0
    /\ candidate_batches = << >>
    /\ line' = line + 1
    /\ skipped' = Append(skipped, [row |-> demand_row,
                                   need |-> remaining_branch_need,
                                   plan_len |-> Len(allocation_plan)])
    /\ UNCHANGED <<session, outputs, pc, arguments, tables, allocation_plan,
                   inner, drawn_from, previous_outputs>>

\* Lines 134-149: the line enters the loop over its candidate batches.
StartLine ==
    /\ AtLine
    /\ remaining_branch_need > 0
    /\ candidate_batches # << >>
    /\ qty_to_fulfill_for_channel' =
           QtyToFulfill(demand_row.forecast_quantity, remaining_branch_need)
    /\ fulfilled_for_channel' = 0
    /\ available_batches' = candidate_batches
    /\ batch' = 1
    /\ pc' = "batch"
    /\ UNCHANGED <<session, outputs, arguments, tables, allocation_plan, line,
                   drawn_from, previous_outputs, skipped>>

batch_row == available_batches[batch]

\* the loop over the batches ends after the batch it is at
NextBatchNever == batch' = batch /\ pc' = "track"

\* the for loop moves to the next batch, or ends when there is none
NextBatch ==
    IF batch < Len(available_batches)
    THEN batch' = batch + 1 /\ pc' = "batch"
    ELSE batch' = batch /\ pc' = "track"

\* Line 150: a batch with no stock is passed over.
SkipEmptyBatch ==
    /\ pc = "batch"
    /\ batch_row.stock_available = 0
    /\ NextBatch
    /\ UNCHANGED <<session, outputs, arguments, tables, allocation_plan, line,
                   qty_to_fulfill_for_channel, fulfilled_for_channel,
                   available_batches, drawn_from, previous_outputs, skipped>>

\* Lines 152-162: draw from the batch.
TakeFromBatch ==
    /\ pc = "batch"
    /\ batch_row.stock_available # 0
    /\ LET take == Take(qty_to_fulfill_for_channel, fulfilled_for_channel,
                       batch_row.stock_available)
       IN  /\ allocation_plan' = Append(allocation_plan,
                  AllocationRecord(demand_row, cw_branch_id, take,
                                   batch_row.expiry_date))
           /\ drawn_from' = Append(drawn_from, batch_row.idx)
           /\ cw_stock_sorted' = Decrement(cw_stock_sorted, batch_row.idx, take)
           /\ fulfilled_for_channel' = fulfilled_for_channel + take
           /\ IF fulfilled_for_channel + take = qty_to_fulfill_for_channel
              THEN batch' = batch /\ pc' = "track"
              ELSE NextBatch
    /\ UNCHANGED <<session, outputs, arguments, prioritized_demand_df,
                   branch_need_tracker, line, qty_to_fulfill_for_channel,
                   available_batches, previous_outputs, skipped>>

\* the line's target comes off the branch's need, met or not
ReduceNeedByTarget(tracker, key, fulfilled) ==
    [tracker EXCEPT ![key] = @ - qty_to_fulfill_for_channel]

\* the branch's need is written off once a line of it has been served
ReduceNeedCleared(tracker, key, fulfilled) == [tracker EXCEPT ![key] = 0]

\* branch_need_tracker[branch_key] -= fulfilled_for_channel
ReduceNeed(tracker, key, fulfilled) == [tracker EXCEPT ![key] = @ - fulfilled]

\* Line 164: the line's fulfilment comes off the branch's need.
TrackFulfilment ==
    /\ pc = "track"
    /\ branch_need_tracker' =
           ReduceNeed(branch_need_tracker, branch_key, fulfilled_for_channel)
    /\ line' = line + 1
    /\ pc' = "line"
    /\ qty_to_fulfill_for_channel' = 0 /\ fulfilled_for_channel' = 0
    /\ available_batches' = << >> /\ batch' = 0
    /\ UNCHANGED <<session, outputs, arguments, prioritized_demand_df,
                   cw_stock_sorted, allocation_plan, drawn_from, previous_outputs, skipped>>

\* Lines 166-177: the loop is over; the three outputs are set and the call
\* returns (its locals are gone).
FinishAllocation ==
    /\ pc = "line"
    /\ line > Len(prioritized_demand_df)
    /\ allocation_plan_df' = OutputSet(allocation_plan_df, allocation_plan)
    /\ unfulfilled_demands_df' =
           OutputSet(unfulfilled_demands_df,
                     UnfulfilledDemands(branch_need_tracker, analysis_df))
    /\ remaining_cw_stock_df' =
           OutputSet(remaining_cw_stock_df, RemainingCwStock(cw_stock_sorted))
    /\ pc' = "done"
    /\ prioritized_demand_df' = << >> /\ cw_stock_sorted' = << >>
    /\ branch_need_tracker' = NoFunction
    /\ allocation_plan' = << >> /\ line' = 0
    /\ UNCHANGED <<session, arguments, inner, drawn_from, previous_outputs, skipped>>

Next ==
    \/ run_analysis
    \/ run_allocation
    \/ SkipSatisfiedLine
    \/ SkipLineWithoutBatches
    \/ StartLine
    \/ SkipEmptyBatch
    \/ TakeFromBatch
    \/ TrackFulfilment
    \/ FinishAllocation

Spec == Init /\ [][Next]_vars

\* A call of run_allocation runs to its return: the interpreter goes on with
\* the loop of lines 124-164 and the statements after it, one after the
\* other.  When the call is made is up to the user (no fairness there).
AllocationStep ==
    \/ SkipSatisfiedLine
    \/ SkipLineWithoutBatches
    \/ StartLine
    \/ SkipEmptyBatch
    \/ TakeFromBatch
    \/ TrackFulfilment
    \/ FinishAllocation

\* the inputs of the fair specification: the tables over one product
FairForecastTables ==
    {t \in ForecastTables : \A r \in Range(t) : r.product_id = 1}

FairStockTables ==
    {t \in StockTables : \A r \in Range(t) : r.product_id = 1}

InitFair ==
    /\ Init
    /\ forecast_df \in FairForecastTables
    /\ stock_df \in FairStockTables

SpecFair == InitFair /\ [][Next]_vars /\ WF_vars(AllocationStep)


(***************************************************************************)
(* The same session with run_allocation called again and again, as the     *)
(* plan button of main_4.py allows (lines 162-172), on smaller tables.     *)
(***************************************************************************)
RerunForecastKeys == {<<1, 1, 1>>, <<1, 1, 2>>, <<1, 2, 1>>}
RerunStockKeys == {<<1, 3>>}

RerunForecastTables ==
    {t \in ForecastTables :
        \A r \in Range(t) :
            <<r.product_id, r.branch_id, r.channel_id>> \in RerunForecastKeys}

RerunStockTables ==
    {t \in StockTables :
        \A r \in Range(t) : <<r.product_id, r.branch_id>> \in RerunStockKeys}

InitRerun ==
    /\ Init
    /\ forecast_df \in RerunForecastTables
    /\ stock_df \in RerunStockTables

run_allocation_again ==
    /\ pc = "done"
    /\ \E pchannels \in PriorityChannelChoices,
          pbranches \in PriorityBranchChoices,
          rules \in ExpiryRuleChoices, now \in Nows :
           BeginAllocation(pchannels, pbranches, rules, now)

NextRerun ==
    \/ run_analysis
    \/ run_allocation
    \/ run_allocation_again
    \/ SkipSatisfiedLine
    \/ SkipLineWithoutBatches
    \/ StartLine
    \/ SkipEmptyBatch
    \/ TakeFromBatch
    \/ TrackFulfilment
    \/ FinishAllocation

SpecRerun == InitRerun /\ [][NextRerun]_vars

(***************************************************************************)
(* Vocabulary of the properties.  These definitions read the tables; they  *)
(* use none of the operators that model the code.                          *)
(***************************************************************************)
RECURSIVE SumSet(_, _)
SumSet(S, f) ==
    IF S = {} THEN 0
    ELSE LET x == CHOOSE y \in S : TRUE IN f[x] + SumSet(S \ {x}, f)

Running == pc \in {"line", "batch", "track"}

\* the index labels of the central-warehouse batches of the stock input
CwBatches == {i \in 1..Len(stock_df) : stock_df[i].branch_id = cw_branch_id}

\* the quantity the records of plan drew from batch i
DrawnFromBatch(plan, i) ==
    SumSet({k \in 1..Len(plan) : drawn_from[k] = i},
           [k \in 1..Len(plan) |-> plan[k].quantity_allocated])

\* the quantity the records of plan allocate to branch b for product p
AllocatedTo(plan, p, b) ==
    SumSet({k \in 1..Len(plan) : plan[k].product_id = p /\ plan[k].to_branch = b},
           [k \in 1..Len(plan) |-> plan[k].quantity_allocated])

\* the rows of table with index label i
RowsOf(table, i) == {k \in 1..Len(table) : table[k].idx = i}

\* C1: Stock conservation.  While run_allocation runs, the working
\* stock_available of every central-warehouse batch is its original
\* stock_available minus the quantities drawn from it, and is not negative;
\* after the run the remaining-stock snapshot lists exactly the batches for
\* which that difference is positive, with that value.
C1_StockConservation ==
    /\ Running =>
         \A i \in CwBatches :
             /\ Cardinality(RowsOf(cw_stock_sorted, i)) = 1
             /\ \A k \in RowsOf(cw_stock_sorted, i) :
                    /\ cw_stock_sorted[k].stock_available =
                           stock_df[i].stock_available
                               - DrawnFromBatch(allocation_plan, i)
                    /\ cw_stock_sorted[k].stock_available >= 0
    /\ pc = "done" =>
         /\ \A i \in CwBatches :
                LET left == stock_df[i].stock_available
                                - DrawnFromBatch(allocation_plan_df, i)
                IN  /\ left >= 0
                    /\ Cardinality(RowsOf(remaining_cw_stock_df, i)) =
                           IF left > 0 THEN 1 ELSE 0
                    /\ \A k \in RowsOf(remaining_cw_stock_df, i) :
                           /\ remaining_cw_stock_df[k].stock_available = left
                           /\ remaining_cw_stock_df[k].product_id =
                                  stock_df[i].product_id
                           /\ remaining_cw_stock_df[k].expiry_date =
                                  stock_df[i].expiry_date
         /\ \A k \in 1..Len(remaining_cw_stock_df) :
                remaining_cw_stock_df[k].idx \in CwBatches

\* A finished run that emptied one batch and left part of another.
C1_Witness ==
    /\ pc = "done"
    /\ \E i, j \in CwBatches :
           /\ DrawnFromBatch(allocation_plan_df, i) = stock_df[i].stock_available
           /\ DrawnFromBatch(allocation_plan_df, j) > 0
           /\ DrawnFromBatch(allocation_plan_df, j) < stock_df[j].stock_available
           /\ RowsOf(remaining_cw_stock_df, i) = {}
           /\ RowsOf(remaining_cw_stock_df, j) # {}

\* the (product_id, branch_id) pairs whose status is Allocation Needed
NeedingBranches ==
    {<<r.product_id, r.branch_id>> :
        r \in {x \in Range(analysis_df) : x.allocation_status = "Allocation Needed"}}

\* the branch_net_need the analysis table gives a (product_id, branch_id)
NetNeedOf(key) ==
    LET r == CHOOSE x \in Range(analysis_df) :
                 <<x.product_id, x.branch_id>> = key
    IN  r.branch_net_need

\* C2: Branch-need conservation.  Between two demand lines and after the
\* last one, for every (product_id, branch_id) with status Allocation Needed
\* the quantity allocated to it plus its tracked remaining need is its
\* original branch_net_need; every row of the unfulfilled report has
\* needed = original branch_net_need, fulfilled = the quantity allocated to
\* it, and fulfilled + unfulfilled = needed.
C2_NeedConservation ==
    /\ pc = "line" =>
         /\ DOMAIN branch_need_tracker = NeedingBranches
         /\ \A key \in NeedingBranches :
                AllocatedTo(allocation_plan, key[1], key[2])
                    + branch_need_tracker[key] = NetNeedOf(key)
    /\ pc = "done" =>
         \A k \in 1..Len(unfulfilled_demands_df) :
             LET u == unfulfilled_demands_df[k]
             IN  /\ <<u.product_id, u.branch_id>> \in NeedingBranches
                 /\ u.needed = NetNeedOf(<<u.product_id, u.branch_id>>)
                 /\ u.fulfilled =
                        AllocatedTo(allocation_plan_df, u.product_id, u.branch_id)
                 /\ u.fulfilled + u.unfulfilled = u.needed

\* A finished run with a branch served through two channels and still short.
C2_Witness ==
    /\ pc = "done"
    /\ \E k \in 1..Len(unfulfilled_demands_df) :
           LET u == unfulfilled_demands_df[k]
           IN  /\ u.fulfilled > 0 /\ u.unfulfilled > 0
               /\ \E a, b \in 1..Len(allocation_plan_df) :
                      /\ allocation_plan_df[a].channel_id #
                             allocation_plan_df[b].channel_id
                      /\ \A x \in {a, b} :
                             /\ allocation_plan_df[x].product_id = u.product_id
                             /\ allocation_plan_df[x].to_branch = u.branch_id

\* the plan of the run in progress, or of the last run once it is over
ThePlan == IF pc = "done" THEN allocation_plan_df ELSE allocation_plan

\* the minimum shelf-life, in days, the call's rules give a channel
RuleDaysOf(channel) ==
    IF channel \in DOMAIN expiry_rules THEN expiry_rules[channel] ELSE 0

\* C3: Expiry eligibility.  Every record of the plan was drawn from a
\* central-warehouse batch of the record's product, carries that batch's
\* expiry_date, and that date is at least now + the days of the record's
\* channel's rule (0 days for a channel without a rule).
C3_ExpiryEligibility ==
    \A k \in 1..Len(ThePlan) :
        LET r == ThePlan[k]
            i == drawn_from[k]
        IN  /\ i \in CwBatches
            /\ stock_df[i].product_id = r.product_id
            /\ stock_df[i].expiry_date = r.expiry_date
            /\ r.expiry_date >= today + RuleDaysOf(r.channel_id)

\* A finished run that served a channel with a rule and a channel without
\* one, while a batch too short-dated for the rule was in the warehouse.
C3_Witness ==
    /\ pc = "done"
    /\ \E a, b \in 1..Len(allocation_plan_df) :
           /\ RuleDaysOf(allocation_plan_df[a].channel_id) > 0
           /\ RuleDaysOf(allocation_plan_df[b].channel_id) = 0
           /\ \E i \in CwBatches :
                  /\ stock_df[i].product_id = allocation_plan_df[a].product_id
                  /\ stock_df[i].expiry_date <
                         today + RuleDaysOf(allocation_plan_df[a].channel_id)
                  /\ drawn_from[b] = i

\* C4: FEFO ordering.  The records of one demand line appear in the plan in
\* non-decreasing expiry_date order, and at the moment a line draws from a
\* batch every other batch of the same product that meets the channel's
\* expiry rule and expires strictly earlier has no stock.
C4_LineInExpiryOrder ==
    \A k, m \in 1..Len(ThePlan) :
        (/\ k < m
         /\ ThePlan[k].product_id = ThePlan[m].product_id
         /\ ThePlan[k].to_branch = ThePlan[m].to_branch
         /\ ThePlan[k].channel_id = ThePlan[m].channel_id)
        => ThePlan[k].expiry_date <= ThePlan[m].expiry_date

C4_EarlierBatchesEmpty ==
    (pc = "batch" /\ Len(allocation_plan') = Len(allocation_plan) + 1) =>
        LET r == allocation_plan'[Len(allocation_plan')]
        IN  \A j \in 1..Len(cw_stock_sorted) :
                (/\ cw_stock_sorted[j].product_id = r.product_id
                 /\ cw_stock_sorted[j].expiry_date >=
                        today + RuleDaysOf(r.channel_id)
                 /\ cw_stock_sorted[j].expiry_date < r.expiry_date)
                => cw_stock_sorted[j].stock_available = 0

C4_Fefo == [][C4_EarlierBatchesEmpty]_vars /\ []C4_LineInExpiryOrder

\* A finished run in which one line drew from two batches of different
\* expiry_date that the stock input lists latest first.
C4_Witness ==
    /\ pc = "done"
    /\ \E k, m \in 1..Len(allocation_plan_df) :
           /\ k < m
           /\ allocation_plan_df[k].to_branch = allocation_plan_df[m].to_branch
           /\ allocation_plan_df[k].channel_id = allocation_plan_df[m].channel_id
           /\ allocation_plan_df[k].expiry_date < allocation_plan_df[m].expiry_date
           /\ drawn_from[m] < drawn_from[k]

\* the priority ranks of a demand line under the call's priorities
ChannelRank(r) == IF r.channel_id \in priority_channels THEN 1 ELSE 2
BranchRank(r) == IF r.branch_id \in priority_branches THEN 1 ELSE 2

\* line a may come before line b in the processing order
MayPrecede(a, b) ==
    \/ ChannelRank(a) < ChannelRank(b)
    \/ /\ ChannelRank(a) = ChannelRank(b)
       /\ \/ BranchRank(a) < BranchRank(b)
          \/ /\ BranchRank(a) = BranchRank(b)
             /\ a.forecast_quantity >= b.forecast_quantity

\* the records of plan that belong to demand line r
RecordsOfLine(plan, r) ==
    {k \in 1..Len(plan) : /\ plan[k].product_id = r.product_id
                          /\ plan[k].to_branch = r.branch_id
                          /\ plan[k].channel_id = r.channel_id}

\* C5: Priority ordering.  The demand lines are the Allocation Needed rows
\* in ascending (channel rank, branch rank) and, within equal ranks,
\* descending forecast_quantity order, and the loop takes them one by one
\* in that order: a record is only created for, and a branch's need only
\* reduced by, the line the loop is at.  For two lines of one (product_id,
\* branch_id) with channel A in priority_channels and channel B not, A's
\* line comes first and B's line has no record while A's line is not over.
C5_Sorted ==
    Running =>
        /\ Len(prioritized_demand_df) =
               Cardinality({x \in Range(analysis_df) :
                               x.allocation_status = "Allocation Needed"})
        /\ \A k \in 1..Len(prioritized_demand_df) :
               \E x \in Range(analysis_df) :
                   /\ x.allocation_status = "Allocation Needed"
                   /\ x.product_id = prioritized_demand_df[k].product_id
                   /\ x.branch_id = prioritized_demand_df[k].branch_id
                   /\ x.channel_id = prioritized_demand_df[k].channel_id
                   /\ x.forecast_quantity =
                          prioritized_demand_df[k].forecast_quantity
        /\ \A k \in 1..(Len(prioritized_demand_df) - 1) :
               MayPrecede(prioritized_demand_df[k], prioritized_demand_df[k + 1])

C5_PriorityFirst ==
    Running =>
        \A a, b \in 1..Len(prioritized_demand_df) :
            LET A == prioritized_demand_df[a]
                B == prioritized_demand_df[b]
            IN  (/\ A.product_id = B.product_id
                 /\ A.branch_id = B.branch_id
                 /\ A.channel_id \in priority_channels
                 /\ B.channel_id \notin priority_channels)
                => /\ a < b
                   /\ line <= a => RecordsOfLine(allocation_plan, B) = {}

C5_InOrder ==
    (Running /\ Running') =>
        /\ line' \in {line, line + 1}
        /\ Len(allocation_plan') > Len(allocation_plan) =>
               /\ line' = line
               /\ Len(allocation_plan') \in
                      RecordsOfLine(allocation_plan', prioritized_demand_df[line])
        /\ branch_need_tracker' # branch_need_tracker =>
               /\ line' = line + 1
               /\ \A key \in DOMAIN branch_need_tracker :
                      branch_need_tracker'[key] # branch_need_tracker[key] =>
                          key = <<prioritized_demand_df[line].product_id,
                                  prioritized_demand_df[line].branch_id>>

C5_PriorityOrder == [][C5_InOrder]_vars /\ [](C5_Sorted /\ C5_PriorityFirst)

\* The loop is over; a line of a priority channel with the smaller forecast
\* and the larger channel_id came before the other line of its branch and
\* was served.
C5_Witness ==
    /\ pc = "line" /\ line > Len(prioritized_demand_df)
    /\ \E a, b \in 1..Len(prioritized_demand_df) :
           LET A == prioritized_demand_df[a]
               B == prioritized_demand_df[b]
           IN  /\ a < b
               /\ A.product_id = B.product_id /\ A.branch_id = B.branch_id
               /\ A.channel_id \in priority_channels
               /\ B.channel_id \notin priority_channels
               /\ A.forecast_quantity < B.forecast_quantity
               /\ A.channel_id > B.channel_id
               /\ RecordsOfLine(allocation_plan, A) # {}
               /\ RecordsOfLine(allocation_plan, B) # {}

\* C6: every record of the plan has a positive quantity_allocated.
C6_PositiveQuantities ==
    \A k \in 1..Len(ThePlan) : ThePlan[k].quantity_allocated > 0

(***************************************************************************)
(* run_allocation as a function of its inputs: the result of a call made   *)
(* on a session on which run_allocation never ran.                         *)
(***************************************************************************)
\* the inner loop from position j of the candidate batches; st is
\* [cw_sorted, plan, fulfilled]
RECURSIVE WalkBatches(_, _, _, _, _, _)
WalkBatches(candidates, j, row, cw, qty_to_fulfill, st) ==
    IF j > Len(candidates) THEN st
    ELSE IF candidates[j].stock_available = 0
    THEN WalkBatches(candidates, j + 1, row, cw, qty_to_fulfill, st)
    ELSE LET take == Take(qty_to_fulfill, st.fulfilled,
                          candidates[j].stock_available)
             st2 == [cw_sorted |-> Decrement(st.cw_sorted, candidates[j].idx, take),
                     plan |-> Append(st.plan,
                                  AllocationRecord(row, cw, take,
                                                   candidates[j].expiry_date)),
                     fulfilled |-> st.fulfilled + take]
         IN  IF st2.fulfilled = qty_to_fulfill THEN st2
             ELSE WalkBatches(candidates, j + 1, row, cw, qty_to_fulfill, st2)

\* the outer loop from position k of the demand lines; st is
\* [cw_sorted, tracker, plan]
RECURSIVE WalkLines(_, _, _, _, _, _)
WalkLines(demand, k, cw, rules, now, st) ==
    IF k > Len(demand) THEN st
    ELSE LET row == demand[k]
             key == <<row.product_id, row.branch_id>>
             need == RemainingBranchNeed(st.tracker, key)
             candidates ==
                 AvailableBatches(st.cw_sorted, row.product_id,
                     RequiredExpiryDate(rules, row.channel_id, now))
         IN  IF need <= 0 \/ candidates = << >>
             THEN WalkLines(demand, k + 1, cw, rules, now, st)
             ELSE LET got == WalkBatches(candidates, 1, row, cw,
                                 QtyToFulfill(row.forecast_quantity, need),
                                 [cw_sorted |-> st.cw_sorted, plan |-> st.plan,
                                  fulfilled |-> 0])
                  IN  WalkLines(demand, k + 1, cw, rules, now,
                          [cw_sorted |-> got.cw_sorted,
                           tracker |-> ReduceNeed(st.tracker, key, got.fulfilled),
                           plan |-> got.plan])

FirstCallResult(analysis, stock, cw, pchannels, pbranches, rules, now) ==
    LET demand_df == DemandDf(analysis, pchannels, pbranches)
        end == WalkLines(PrioritizedDemand(demand_df), 1, cw, rules, now,
                   [cw_sorted |-> CwStockSorted(stock, cw),
                    tracker |-> BranchNeedTracker(demand_df),
                    plan |-> << >>])
    IN  <<end.plan, UnfulfilledDemands(end.tracker, analysis),
          RemainingCwStock(end.cw_sorted)>>

\* C7: Run isolation.  No step of run_allocation changes stock_df,
\* forecast_df or analysis_df, and whatever calls came before, the three
\* outputs of a finished call are exactly those a first call with the same
\* priorities, expiry rules and now produces from the stock input and the
\* analysis table: the outputs of the call before are replaced.
C7_InputsUntouched ==
    /\ stock_df' = stock_df
    /\ forecast_df' = forecast_df
    /\ pc # "loaded" => analysis_df' = analysis_df

C7_SameAsFirstCall ==
    pc = "done" =>
        outputs = FirstCallResult(Analysis(forecast_df, stock_df, cw_branch_id),
                      stock_df, cw_branch_id, priority_channels,
                      priority_branches, expiry_rules, today)

C7_RunIsolation == [][C7_InputsUntouched]_vars /\ []C7_SameAsFirstCall

\* A finished call whose plan and unfulfilled report both differ from those
\* of the call before it, which had allocated stock and reported unfulfilled
\* demand too.
C7_Witness ==
    /\ pc = "done"
    /\ \A n \in 1..2 : previous_outputs[n] # << >> /\ outputs[n] # << >>
    /\ \A n \in 1..2 : outputs[n] # previous_outputs[n]

Analysed == pc # "loaded"

\* the forecast records of a key, a branch; the stock batches held by a
\* branch that is not the central warehouse
ForecastOfKey(p, b, c) ==
    {i \in 1..Len(forecast_df) : /\ forecast_df[i].product_id = p
                                 /\ forecast_df[i].branch_id = b
                                 /\ forecast_df[i].channel_id = c}
ForecastOfBranch(p, b) ==
    {i \in 1..Len(forecast_df) : /\ forecast_df[i].product_id = p
                                 /\ forecast_df[i].branch_id = b}
StockOfBranch(p, b) ==
    {i \in 1..Len(stock_df) : /\ stock_df[i].product_id = p
                              /\ stock_df[i].branch_id = b
                              /\ b # cw_branch_id}
ForecastQuantities == [i \in 1..Len(forecast_df) |-> forecast_df[i].forecast_quantity]
StockQuantities == [i \in 1..Len(stock_df) |-> stock_df[i].stock_available]

\* C8: the analysis table has exactly one row per (product_id, branch_id,
\* channel_id) of the forecast; its forecast_quantity is the sum over the
\* forecast records of that key, its total_forecast_at_branch the sum over
\* all forecast records of the (product_id, branch_id), its
\* total_stock_available the sum of the stock held at that branch (0 without
\* a stock record, central-warehouse stock never counted) and its
\* branch_net_need their difference.
C8_Analysis ==
    Analysed =>
        /\ \A i, j \in 1..Len(analysis_df) :
               (/\ analysis_df[i].product_id = analysis_df[j].product_id
                /\ analysis_df[i].branch_id = analysis_df[j].branch_id
                /\ analysis_df[i].channel_id = analysis_df[j].channel_id)
               => i = j
        /\ {<<r.product_id, r.branch_id, r.channel_id>> : r \in Range(analysis_df)}
               = {<<r.product_id, r.branch_id, r.channel_id>> : r \in Range(forecast_df)}
        /\ \A r \in Range(analysis_df) :
               /\ r.forecast_quantity =
                      SumSet(ForecastOfKey(r.product_id, r.branch_id, r.channel_id),
                             ForecastQuantities)
               /\ r.total_forecast_at_branch =
                      SumSet(ForecastOfBranch(r.product_id, r.branch_id),
                             ForecastQuantities)
               /\ r.total_stock_available =
                      SumSet(StockOfBranch(r.product_id, r.branch_id),
                             StockQuantities)
               /\ r.branch_net_need =
                      r.total_forecast_at_branch - r.total_stock_available

\* The analysis of a forecast with two records of one key, at a branch that
\* holds stock, with a batch of the product in the central warehouse.
C8_Witness ==
    /\ pc = "ready"
    /\ Len(forecast_df) = 2 /\ Len(analysis_df) = 1
    /\ analysis_df[1].forecast_quantity = 2 * MaxQty
    /\ analysis_df[1].total_stock_available > 0
    /\ \E i \in CwBatches : stock_df[i].product_id = analysis_df[1].product_id

\* C9: Status classification.  A row is Allocation Needed exactly when its
\* branch_net_need is > 0, No Allocation Needed exactly when it is 0 and
\* Overstock exactly when it is < 0; every demand line is a row with status
\* Allocation Needed, and every record of the plan goes to a (product_id,
\* branch_id) whose net need is > 0.
C9_StatusClassification ==
    /\ Analysed =>
         \A r \in Range(analysis_df) :
             /\ r.allocation_status = "Allocation Needed" <=> r.branch_net_need > 0
             /\ r.allocation_status = "No Allocation Needed" <=> r.branch_net_need = 0
             /\ r.allocation_status = "Overstock" <=> r.branch_net_need < 0
    /\ Running =>
         \A k \in 1..Len(prioritized_demand_df) :
             \E r \in Range(analysis_df) :
                 /\ r.product_id = prioritized_demand_df[k].product_id
                 /\ r.branch_id = prioritized_demand_df[k].branch_id
                 /\ r.channel_id = prioritized_demand_df[k].channel_id
                 /\ r.allocation_status = "Allocation Needed"
    /\ \A k \in 1..Len(ThePlan) :
           \E r \in Range(analysis_df) :
               /\ r.product_id = ThePlan[k].product_id
               /\ r.branch_id = ThePlan[k].to_branch
               /\ r.channel_id = ThePlan[k].channel_id
               /\ r.branch_net_need > 0

\* A finished run that served a branch and left warehouse stock of a
\* product for which another branch's net need is exactly 0.
C9_Witness ==
    /\ pc = "done"
    /\ allocation_plan_df # << >>
    /\ \E r \in Range(analysis_df) :
           /\ r.branch_net_need = 0
           /\ r.forecast_quantity > 0
           /\ \E k \in 1..Len(remaining_cw_stock_df) :
                  remaining_cw_stock_df[k].product_id = r.product_id

\* C10: Unfulfilled report.  It has exactly one row for each (product_id,
\* branch_id) with status Allocation Needed to which the plan allocates less
\* than its branch_net_need, no other row, and unfulfilled > 0 in every row.
C10_UnfulfilledReport ==
    pc = "done" =>
        /\ \A i, j \in 1..Len(unfulfilled_demands_df) :
               (/\ unfulfilled_demands_df[i].product_id =
                       unfulfilled_demands_df[j].product_id
                /\ unfulfilled_demands_df[i].branch_id =
                       unfulfilled_demands_df[j].branch_id)
               => i = j
        /\ {<<u.product_id, u.branch_id>> : u \in Range(unfulfilled_demands_df)}
               = {key \in NeedingBranches :
                     AllocatedTo(allocation_plan_df, key[1], key[2]) < NetNeedOf(key)}
        /\ \A u \in Range(unfulfilled_demands_df) : u.unfulfilled > 0

\* A finished run that met the need of one branch in full and left another
\* branch short.
C10_Witness ==
    /\ pc = "done"
    /\ Len(unfulfilled_demands_df) = 1
    /\ \E key \in NeedingBranches :
           AllocatedTo(allocation_plan_df, key[1], key[2]) = NetNeedOf(key)

\* the lookups of run_allocation that raise when their key is missing are
\* made on keys that are there: the tracker entry of the line being served
\* (line 164), the batch row being reduced (line 159), the analysis row of
\* every branch reported after the loop (line 169)
C11_NoError ==
    /\ pc \in {"batch", "track"} =>
         /\ line \in 1..Len(prioritized_demand_df)
         /\ <<prioritized_demand_df[line].product_id,
              prioritized_demand_df[line].branch_id>> \in DOMAIN branch_need_tracker
    /\ pc = "batch" =>
         /\ batch \in 1..Len(available_batches)
         /\ Cardinality(RowsOf(cw_stock_sorted, available_batches[batch].idx)) = 1
    /\ pc = "line" =>
         \A key \in DOMAIN branch_need_tracker :
             \E r \in Range(analysis_df) : <<r.product_id, r.branch_id>> = key

\* the outputs of a run without demand lines, and of a run without
\* central-warehouse stock
C11_EmptyCases ==
    /\ (pc = "done" /\ NeedingBranches = {}) =>
         /\ allocation_plan_df = << >>
         /\ unfulfilled_demands_df = << >>
         /\ {r.idx : r \in Range(remaining_cw_stock_df)} =
                {i \in CwBatches : stock_df[i].stock_available > 0}
         /\ Len(remaining_cw_stock_df) =
                Cardinality({i \in CwBatches : stock_df[i].stock_available > 0})
         /\ \A r \in Range(remaining_cw_stock_df) :
                r.stock_available = stock_df[r.idx].stock_available
    /\ (pc = "done" /\ CwBatches = {}) =>
         /\ allocation_plan_df = << >>
         /\ {<<u.product_id, u.branch_id>> : u \in Range(unfulfilled_demands_df)}
                = NeedingBranches
         /\ Len(unfulfilled_demands_df) = Cardinality(NeedingBranches)
         /\ \A u \in Range(unfulfilled_demands_df) :
                /\ u.fulfilled = 0
                /\ u.unfulfilled = NetNeedOf(<<u.product_id, u.branch_id>>)

\* C11: Totality.  For every forecast and stock input (empty tables, no
\* Allocation Needed line, no central-warehouse batch and lines without an
\* eligible batch included) a call of run_allocation made after run_analysis
\* returns, and no lookup on its way fails.  Without a demand line the plan
\* and the unfulfilled report are empty and the remaining snapshot is the
\* central-warehouse batches with positive stock; without central-warehouse
\* stock the plan is empty and every needing branch is reported with
\* fulfilled = 0.
C11_Totality ==
    /\ [](C11_NoError /\ C11_EmptyCases)
    /\ (Running ~> (pc = "done"))

\* A finished run without any central-warehouse batch that reports two
\* branches in need.
C11_Witness ==
    /\ pc = "done"
    /\ CwBatches = {}
    /\ Cardinality(NeedingBranches) = 2
    /\ Len(unfulfilled_demands_df) = 2

\* the quantity the records of plan after position n allocate to branch b
\* for product p
AllocatedAfter(plan, n, p, b) ==
    SumSet({k \in (n + 1)..Len(plan) :
                plan[k].product_id = p /\ plan[k].to_branch = b},
           [k \in 1..Len(plan) |-> plan[k].quantity_allocated])

\* the unfulfilled report has a row for (product_id, branch_id) = (p, b)
Reported(p, b) ==
    \E u \in Range(unfulfilled_demands_df) : u.product_id = p /\ u.branch_id = b

\* C12 as stated: after the run the unfulfilled report has a row for the
\* (product_id, branch_id) of every demand line that was skipped, with its
\* branch's remaining need > 0, because no central-warehouse batch of its
\* product met its channel's expiry rule.
C12_SkippedIsReported ==
    pc = "done" =>
        \A n \in 1..Len(skipped) :
            Reported(skipped[n].row.product_id, skipped[n].row.branch_id)

\* C12, amended: a demand line skipped for want of an eligible batch leaves
\* its branch's remaining need (> 0) as it is, and after the run the report
\* has a row for its (product_id, branch_id) unless the lines of that branch
\* served after it were allocated all of that need; the row's unfulfilled is
\* that need minus what those later lines were allocated.
C12_SkippedReportedUnlessCovered ==
    /\ \A n \in 1..Len(skipped) :
           LET s == skipped[n]
           IN  /\ s.need > 0
               /\ s.need = NetNeedOf(<<s.row.product_id, s.row.branch_id>>)
                     - (AllocatedTo(ThePlan, s.row.product_id, s.row.branch_id)
                        - AllocatedAfter(ThePlan, s.plan_len,
                                         s.row.product_id, s.row.branch_id))
    /\ pc = "done" =>
         \A n \in 1..Len(skipped) :
             LET s == skipped[n]
                 p == s.row.product_id
                 b == s.row.branch_id
                 later == AllocatedAfter(allocation_plan_df, s.plan_len, p, b)
             IN  /\ Reported(p, b) <=> later < s.need
                 /\ \A u \in Range(unfulfilled_demands_df) :
                        (u.product_id = p /\ u.branch_id = b)
                            => u.unfulfilled = s.need - later

\* A finished run in which a line was skipped for want of an eligible batch
\* and a later line of its branch was then allocated the whole need, so that
\* the branch is not reported.
C12_Witness ==
    /\ pc = "done"
    /\ \E n \in 1..Len(skipped) :
           LET s == skipped[n]
           IN  /\ ~Reported(s.row.product_id, s.row.branch_id)
               /\ AllocatedAfter(allocation_plan_df, s.plan_len,
                                 s.row.product_id, s.row.branch_id) = s.need

\* the (product_id, branch_id) of the demand line the loop is at
KeyOfLine ==
    <<prioritized_demand_df[line].product_id, prioritized_demand_df[line].branch_id>>

\* what the plan holds for the demand line the loop is at
AllocatedToLine ==
    SumSet(RecordsOfLine(allocation_plan, prioritized_demand_df[line]),
           [k \in 1..Len(allocation_plan) |-> allocation_plan[k].quantity_allocated])

\* the tracked need has one entry per needing (product_id, branch_id), starts
\* at branch_net_need and stays between 0 and it; while a line is served its
\* records sum to at most its forecast and at most its branch's remaining
\* need; no branch is allocated more than its branch_net_need
C13_WithinNeed ==
    /\ Running =>
         /\ DOMAIN branch_need_tracker = NeedingBranches
         /\ \A key \in NeedingBranches :
                /\ branch_need_tracker[key] >= 0
                /\ branch_need_tracker[key] <= NetNeedOf(key)
                /\ (pc = "line" /\ line = 1) =>
                       branch_need_tracker[key] = NetNeedOf(key)
    /\ pc \in {"batch", "track"} =>
         /\ AllocatedToLine <= prioritized_demand_df[line].forecast_quantity
         /\ AllocatedToLine <= branch_need_tracker[KeyOfLine]
    /\ \A k \in 1..Len(ThePlan) :
           <<ThePlan[k].product_id, ThePlan[k].to_branch>> \in NeedingBranches
    /\ \A key \in NeedingBranches :
           AllocatedTo(ThePlan, key[1], key[2]) <= NetNeedOf(key)

\* a step of the run never raises a tracked need, lowers only the need of
\* the branch of the line it is at, and gives nothing to a line met with a
\* remaining need <= 0
C13_NeverRaised ==
    (Running /\ pc' # "done") =>
        /\ \A key \in DOMAIN branch_need_tracker :
               /\ branch_need_tracker'[key] <= branch_need_tracker[key]
               /\ branch_need_tracker'[key] < branch_need_tracker[key]
                      => (pc = "track" /\ key = KeyOfLine)
        /\ (/\ pc = "line"
            /\ line <= Len(prioritized_demand_df)
            /\ branch_need_tracker[KeyOfLine] <= 0)
               => (allocation_plan' = allocation_plan /\ pc' = "line"
                   /\ line' = line + 1)

\* C13: Branch-scoped need cap.  The remaining need tracked per (product_id,
\* branch_id) starts at branch_net_need, is shared by the channel lines of
\* the branch, never increases and never drops below 0; a demand line is
\* allocated at most min(its forecast_quantity, its branch's remaining need
\* when it is processed), so a (product_id, branch_id) is never allocated
\* more than its branch_net_need, and a line processed when the remaining
\* need is <= 0 is allocated nothing.
C13_NeedCap == [][C13_NeverRaised]_vars /\ []C13_WithinNeed

\* A line about to be booked whose allocation was capped below its forecast
\* by what an earlier line of the same branch had left of the need.
C13_Witness ==
    /\ pc = "track"
    /\ fulfilled_for_channel > 0
    /\ AllocatedToLine = branch_need_tracker[KeyOfLine]
    /\ AllocatedToLine < prioritized_demand_df[line].forecast_quantity
    /\ AllocatedTo(allocation_plan, KeyOfLine[1], KeyOfLine[2]) > AllocatedToLine

\* the loop is at a demand line whose branch has no remaining need
AtSatisfiedLine ==
    /\ pc = "line"
    /\ line <= Len(prioritized_demand_df)
    /\ (KeyOfLine \in DOMAIN branch_need_tracker
            => branch_need_tracker[KeyOfLine] <= 0)

\* the loop is at a demand line for which no central-warehouse batch of the
\* product meets the channel's expiry rule
AtLineWithoutEligibleBatch ==
    /\ pc = "line"
    /\ line <= Len(prioritized_demand_df)
    /\ \A k \in 1..Len(cw_stock_sorted) :
           cw_stock_sorted[k].product_id = prioritized_demand_df[line].product_id
               => cw_stock_sorted[k].expiry_date <
                      today + RuleDaysOf(prioritized_demand_df[line].channel_id)

\* the step taken at a line that is skipped moves to the next line and
\* changes nothing else
C14_SkipStep ==
    (AtSatisfiedLine \/ AtLineWithoutEligibleBatch) =>
        /\ line' = line + 1
        /\ pc' = "line"
        /\ allocation_plan' = allocation_plan
        /\ cw_stock_sorted' = cw_stock_sorted
        /\ branch_need_tracker' = branch_need_tracker
        /\ outputs' = outputs
        /\ session' = session

\* a line skipped for want of an eligible batch has no record in the plan
C14_SkippedGetsNothing ==
    \A n \in 1..Len(skipped) : RecordsOfLine(ThePlan, skipped[n].row) = {}

\* C14: Skipping a demand line has no effect.  When the line the loop is at
\* is skipped, because its branch's remaining need is <= 0 or because no
\* central-warehouse batch of its product meets its channel's expiry rule,
\* no record is added, the stock_available of every batch and the remaining
\* need of every branch stay as they are, and the loop moves on; the stock
\* the line could not use is left for the lines of other channels.
C14_SkipHasNoEffect == [][C14_SkipStep]_vars /\ []C14_SkippedGetsNothing

\* A finished run in which a line was skipped for want of an eligible batch
\* and a later line of another channel drew from a batch of that product
\* that the skipped line's channel could not use.
C14_Witness ==
    /\ pc = "done"
    /\ \E n \in 1..Len(skipped) :
           \E k \in (skipped[n].plan_len + 1)..Len(allocation_plan_df) :
               /\ allocation_plan_df[k].product_id = skipped[n].row.product_id
               /\ allocation_plan_df[k].channel_id # skipped[n].row.channel_id
               /\ allocation_plan_df[k].quantity_allocated > 0
               /\ allocation_plan_df[k].expiry_date <
                      today + RuleDaysOf(skipped[n].row.channel_id)

\* while a line is being booked: it was allocated its target, or every
\* central-warehouse batch of its product that meets its channel's rule is
\* empty
C15_LineExhausts ==
    pc = "track" =>
        LET r == prioritized_demand_df[line]
            need == branch_need_tracker[KeyOfLine]
            target == IF r.forecast_quantity <= need
                      THEN r.forecast_quantity ELSE need
        IN  \/ AllocatedToLine = target
            \/ \A k \in 1..Len(cw_stock_sorted) :
                   (/\ cw_stock_sorted[k].product_id = r.product_id
                    /\ cw_stock_sorted[k].expiry_date >=
                           today + RuleDaysOf(r.channel_id))
                   => cw_stock_sorted[k].stock_available = 0

\* the channels of the demand lines of (product_id, branch_id) = (p, b)
ChannelsOfBranch(p, b) ==
    {r.channel_id :
        r \in {x \in Range(analysis_df) : x.product_id = p /\ x.branch_id = b}}

\* after the run: a branch reported with unfulfilled > 0 has a channel for
\* which the snapshot holds no eligible batch of the product with stock
C15_NoLeftoverForAll ==
    pc = "done" =>
        \A u \in Range(unfulfilled_demands_df) :
            u.unfulfilled > 0 =>
                \E c \in ChannelsOfBranch(u.product_id, u.branch_id) :
                    \A k \in 1..Len(remaining_cw_stock_df) :
                        (/\ remaining_cw_stock_df[k].product_id = u.product_id
                         /\ remaining_cw_stock_df[k].stock_available > 0)
                        => remaining_cw_stock_df[k].expiry_date <
                               today + RuleDaysOf(c)

\* C15: Greedy exhaustion.  A demand line stops drawing only when its target
\* is met or every central-warehouse batch eligible for its channel is
\* empty; so when a (product_id, branch_id) is reported with unfulfilled > 0,
\* at least one channel of its demand lines has no eligible batch of the
\* product with stock_available > 0 in the remaining-stock snapshot.
C15_GreedyExhaustion == C15_LineExhausts /\ C15_NoLeftoverForAll

\* A finished run that reports a branch partly served and still short while
\* the snapshot holds stock of the product, which one of the branch's
\* channels could not use.
C15_Witness ==
    /\ pc = "done"
    /\ \E u \in Range(unfulfilled_demands_df) :
           /\ u.fulfilled > 0
           /\ u.unfulfilled > 0
           /\ \E k \in 1..Len(remaining_cw_stock_df) :
                  /\ remaining_cw_stock_df[k].product_id = u.product_id
                  /\ remaining_cw_stock_df[k].stock_available > 0

\* C16: Every record of the plan has from_branch = cw_branch_id and a
\* to_branch that is a destination branch, different from cw_branch_id, for
\* every valid input, forecasts with rows at the central warehouse included.
C16_FromCwToDestination ==
    \A k \in 1..Len(ThePlan) :
        /\ ThePlan[k].from_branch = cw_branch_id
        /\ ThePlan[k].to_branch # cw_branch_id
====
